---- MODULE Spec2Model ----
(***************************************************************************)
(* Model of bot_command_parser/parsers.py: the parser combinators, the     *)
(* Seq builder and the ParseError values.                                  *)
(*                                                                         *)
(* A Python str is a sequence of one-character strings.  A Python object   *)
(* is a record whose "ty" field names its type (values) or whose "cls"     *)
(* field names its class (parsers, errors).  The result of a call is       *)
(* either Return(rest, value) or Raise(error).                             *)
(***************************************************************************)
EXTENDS Integers, Sequences, FiniteSets, TLC

VARIABLES source, parser, outcome, err, text

vars == <<source, parser, outcome, err, text>>

(***************************************************************************)
(* Bounds of the model.                                                    *)
(***************************************************************************)
MaxLen == 3
MaxSeq == 2
MaxPath == 2
MaxDepth == 2

Whitespace == {" "}
Alphabet == {" ", "+", "-", "0", "1", "a"}

Strings == UNION {[1..n -> Alphabet] : n \in 0..MaxLen}

(***************************************************************************)
(* Python built-ins used by the parsers.                                   *)
(***************************************************************************)
isspace(c) == c \in Whitespace

DigitChars == {"0", "1", "2", "3", "4", "5", "6", "7", "8", "9"}

DigitValue(c) ==
    CASE c = "0" -> 0 [] c = "1" -> 1 [] c = "2" -> 2 [] c = "3" -> 3
      [] c = "4" -> 4 [] c = "5" -> 5 [] c = "6" -> 6 [] c = "7" -> 7
      [] c = "8" -> 8 [] c = "9" -> 9

RECURSIVE lstrip(_)
lstrip(s) == IF s # <<>> /\ isspace(Head(s)) THEN lstrip(Tail(s)) ELSE s

\* s[n:] of Python, n counted from 0
SliceFrom(s, n) == SubSeq(s, n + 1, Len(s))

\* s[:n] of Python
SliceTo(s, n) == SubSeq(s, 1, n)

\* length of the longest prefix of s[from:] made of characters whose
\* membership in the class equals inside (a greedy "+" of a regular
\* expression: \d+ is Run(s, from, DigitChars, TRUE), \S+ is
\* Run(s, from, Whitespace, FALSE))
RECURSIVE Run(_, _, _, _)
Run(s, from, class, inside) ==
    IF from < Len(s) /\ ((s[from + 1] \in class) = inside)
    THEN 1 + Run(s, from + 1, class, inside)
    ELSE 0

RECURSIVE DecimalValue(_, _)
DecimalValue(digits, acc) ==
    IF digits = <<>> THEN acc
    ELSE DecimalValue(Tail(digits), 10 * acc + DigitValue(Head(digits)))

\* int(str) on a string of the shape [-+]?\d+
int(s) ==
    IF Head(s) = "-" THEN 0 - DecimalValue(Tail(s), 0)
    ELSE IF Head(s) = "+" THEN DecimalValue(Tail(s), 0)
    ELSE DecimalValue(s, 0)

\* the pattern -?\d+, without the plus sign
MatchInteger_no_plus(s) ==
    LET sign == IF s # <<>> /\ s[1] = "-" THEN 1 ELSE 0
        digits == Run(s, sign, DigitChars, TRUE)
    IN  IF digits = 0 THEN -1 ELSE sign + digits

\* re.match(r"([-+]?\d+)", s): the end of group 1, or -1 when there is no match
MatchInteger(s) ==
    LET sign == IF s # <<>> /\ s[1] \in {"-", "+"} THEN 1 ELSE 0
        digits == Run(s, sign, DigitChars, TRUE)
    IN  IF digits = 0 THEN -1 ELSE sign + digits

\* re.match(r"(\S+)", s): the end of group 1, or -1 when there is no match
MatchWord(s) ==
    LET n == Run(s, 0, Whitespace, FALSE)
    IN  IF n = 0 THEN -1 ELSE n

(***************************************************************************)
(* Python values.                                                          *)
(***************************************************************************)
PyInt(n) == [ty |-> "int", n |-> n]
PyStr(s) == [ty |-> "str", s |-> s]
PyNone == [ty |-> "NoneType"]
PyTuple(items) == [ty |-> "tuple", items |-> items]

Return(r, v) == [tag |-> "return", rest |-> r, value |-> v]
Raise(e) == [tag |-> "raise", error |-> e]
NotCalled == [tag |-> "none"]

(***************************************************************************)
(* ParseError values.                                                      *)
(***************************************************************************)
SimpleParseError(message) == [cls |-> "SimpleParseError", message |-> message]

NestedParseError(path, error) ==
    [cls |-> "NestedParseError", path |-> path, error |-> error]

SimpleParseError_nest(self, key) == NestedParseError(<<key>>, self)

NestedParseError_nest(self, key) ==
    NestedParseError(Append(self.path, key), self.error)

\* e.nest(key), dispatched on the class of e
nest(e, key) ==
    IF e.cls = "SimpleParseError" THEN SimpleParseError_nest(e, key)
    ELSE NestedParseError_nest(e, key)

\* repr(n) of an int
RECURSIVE repr_nat(_)
repr_nat(n) ==
    LET d == n % 10
        c == CHOOSE ch \in DigitChars : DigitValue(ch) = d
    IN  IF n < 10 THEN <<c>> ELSE Append(repr_nat(n \div 10), c)

repr_int(n) == IF n < 0 THEN <<"-">> \o repr_nat(0 - n) ELSE repr_nat(n)

Chars(s) == {s[i] : i \in 1..Len(s)}

\* the escaping of one character inside repr(str)
repr_char(c, quote) ==
    CASE c = quote \/ c = "\\" -> <<"\\", c>>
      [] c = "\t" -> <<"\\", "t">>
      [] c = "\n" -> <<"\\", "n">>
      [] c = "\r" -> <<"\\", "r">>
      [] OTHER -> <<c>>

RECURSIVE repr_body(_, _)
repr_body(s, quote) ==
    IF s = <<>> THEN <<>>
    ELSE repr_char(Head(s), quote) \o repr_body(Tail(s), quote)

\* repr(s) of a str of printable characters: single quotes, unless the
\* string holds a single quote and no double quote
repr_str(s) ==
    LET quote == IF "'" \in Chars(s) /\ "\"" \notin Chars(s) THEN "\"" ELSE "'"
    IN  <<quote>> \o repr_body(s, quote) \o <<quote>>

\* sep.join(items)
RECURSIVE join(_, _)
join(sep, items) ==
    IF items = <<>> THEN <<>>
    ELSE IF Len(items) = 1 THEN items[1]
    ELSE items[1] \o sep \o join(sep, Tail(items))

RootText == <<"<", "r", "o", "o", "t", ">">>

SimpleParseError_describe(self) == self.message

RECURSIVE describe(_)

\* NestedParseError.describe with the message formatted by {1} instead of
\* {1!r}
NestedParseError_describe_plain(self) ==
    LET joined == join(<<".">>, [i \in 1..Len(self.path) |-> repr_int(self.path[i])])
        path == IF joined = <<>> THEN RootText ELSE joined
    IN  <<"a", "t", " ">> \o repr_str(path) \o <<":", " ">>
            \o describe(self.error)

NestedParseError_describe(self) ==
    LET joined == join(<<".">>, [i \in 1..Len(self.path) |-> repr_int(self.path[i])])
        path == IF joined = <<>> THEN RootText ELSE joined
    IN  <<"a", "t", " ">> \o repr_str(path) \o <<":", " ">>
            \o repr_str(describe(self.error))

\* e.describe(), dispatched on the class of e
describe(e) ==
    IF e.cls = "SimpleParseError" THEN SimpleParseError_describe(e)
    ELSE NestedParseError_describe(e)

ExpectedAnInteger ==
    <<"E", "x", "p", "e", "c", "t", "e", "d", " ", "a", "n", " ",
      "i", "n", "t", "e", "g", "e", "r">>

ExpectedNonSpace ==
    <<"E", "x", "p", "e", "c", "t", "e", "d", " ", "a", "t", " ",
      "l", "e", "a", "s", "t", " ", "o", "n", "e", " ",
      "n", "o", "n", "-", "s", "p", "a", "c", "e", " ",
      "c", "h", "a", "r", "a", "c", "t", "e", "r">>

ExpectedLiteral ==
    <<"E", "x", "p", "e", "c", "t", "e", "d", " ",
      "l", "i", "t", "e", "r", "a", "l", ":", " ">>

GotText == <<",", " ", "g", "o", "t", ":", " ">>

(***************************************************************************)
(* Primitive parsers.                                                      *)
(***************************************************************************)
integer == [cls |-> "Int"]
word == [cls |-> "Word"]
rest == [cls |-> "Rest"]
nothing == [cls |-> "Nothing"]
Lit(value) == [cls |-> "Lit", value |-> value]
PureParser(value) == [cls |-> "PureParser", value |-> value]

\* Int.parse that returns the matched text as the remainder (source[:end]
\* for source[end:])
Int_parse_head(src) ==
    LET s == lstrip(src)
        end == MatchInteger(s)
    IN  IF end = -1 THEN Raise(SimpleParseError(ExpectedAnInteger))
        ELSE Return(lstrip(SliceTo(s, end)), PyInt(int(SliceTo(s, end))))

Int_parse(src) ==
    LET s == lstrip(src)
        end == MatchInteger(s)
    IN  IF end = -1 THEN Raise(SimpleParseError(ExpectedAnInteger))
        ELSE Return(lstrip(SliceFrom(s, end)), PyInt(int(SliceTo(s, end))))

\* Word.parse without the lstrip of the remainder
Word_parse_keeps_space(src) ==
    LET s == lstrip(src)
        end == MatchWord(s)
    IN  IF end = -1 THEN Raise(SimpleParseError(ExpectedNonSpace))
        ELSE Return(SliceFrom(s, end), PyStr(SliceTo(s, end)))

Word_parse(src) ==
    LET s == lstrip(src)
        end == MatchWord(s)
    IN  IF end = -1 THEN Raise(SimpleParseError(ExpectedNonSpace))
        ELSE Return(lstrip(SliceFrom(s, end)), PyStr(SliceTo(s, end)))

Rest_parse(src) == Return(<<>>, PyStr(src))

Nothing_parse(src) == Return(src, PyNone)

PureParser_parse(self, src) == Return(src, self.value)

\* Lit.parse that accepts a word that starts with the literal
Lit_parse_prefix(self, src) ==
    LET s == lstrip(src)
        end == MatchWord(s)
        w == SliceTo(s, end)
    IN  IF end = -1
        THEN Raise(SimpleParseError(ExpectedLiteral \o self.value.s))
        ELSE IF SliceTo(w, Len(self.value.s)) # self.value.s
        THEN Raise(SimpleParseError(ExpectedLiteral \o self.value.s \o GotText \o w))
        ELSE Return(lstrip(SliceFrom(s, end)), PyStr(w))

Lit_parse(self, src) ==
    LET s == lstrip(src)
        end == MatchWord(s)
        w == SliceTo(s, end)
    IN  IF end = -1
        THEN Raise(SimpleParseError(ExpectedLiteral \o self.value.s))
        ELSE IF w # self.value.s
        THEN Raise(SimpleParseError(ExpectedLiteral \o self.value.s \o GotText \o w))
        ELSE Return(lstrip(SliceFrom(s, end)), PyStr(w))

(***************************************************************************)
(* Combinators.  A mapper is a Python callable; the model names the ones   *)
(* the callers pass and Call applies them.                                 *)
(***************************************************************************)
MappingParser(wrapped, mapper) ==
    [cls |-> "MappingParser", wrapped |-> wrapped, mapper |-> mapper]

NestedParser(wrapped) == [cls |-> "NestedParser", wrapped |-> wrapped]

FlatMappingParser(wrapped, mapper) ==
    [cls |-> "FlatMappingParser", wrapped |-> wrapped, mapper |-> mapper]

Seq_init(converters) == [cls |-> "Seq", converters |-> converters]

seq == Seq_init(<<>>)
literal(value) == Lit(value)
pure(value) == PureParser(value)

Parser_map(self, fn) == MappingParser(self, fn)
Parser_flatten(self) == NestedParser(self)
Parser_flat_map(self, fn) == FlatMappingParser(self, fn)

Seq_add(self, converter) == Seq_init(Append(self.converters, converter))

\* fn(value) for the callables the callers pass as mappers
Call(fn, value) ==
    CASE fn = "literal" -> literal(value)
      [] fn = "pure" -> pure(value)
      [] fn = "lambda _: integer" -> integer
      [] fn = "lambda n: -n" -> PyInt(0 - value.n)

RECURSIVE Parse(_, _)

MappingParser_parse(self, src) ==
    LET r == Parse(self.wrapped, src)
    IN  IF r.tag = "raise" THEN r
        ELSE Return(r.rest, Call(self.mapper, r.value))

\* NestedParser.parse that runs the inner parser on the source, not on the
\* remainder of the outer parser
NestedParser_parse_same_source(self, src) ==
    LET r == Parse(self.wrapped, src)
    IN  IF r.tag = "raise" THEN r
        ELSE Parse(r.value, src)

NestedParser_parse(self, src) ==
    LET r == Parse(self.wrapped, src)
    IN  IF r.tag = "raise" THEN r
        ELSE Parse(r.value, r.rest)

FlatMappingParser_parse(self, src) ==
    Parse(Parser_flatten(Parser_map(self.wrapped, self.mapper)), src)

\* the loop of Seq.parse from position pos on, with the remainder and the
\* results accumulated so far
RECURSIVE SeqLoop(_, _, _, _)
\* SeqLoop with the position counted from 0 (enumerate without start=1)
SeqLoop_zero_based(converters, pos, r, results) ==
    IF pos > Len(converters) THEN Return(lstrip(r), PyTuple(results))
    ELSE LET step == Parse(converters[pos], r)
         IN  IF step.tag = "raise" THEN Raise(nest(step.error, pos - 1))
             ELSE SeqLoop(converters, pos + 1, step.rest,
                          Append(results, step.value))

\* SeqLoop that runs every constituent on the same input (the remainder
\* of a constituent is dropped)
SeqLoop_same_input(converters, pos, r, results) ==
    IF pos > Len(converters) THEN Return(lstrip(r), PyTuple(results))
    ELSE LET step == Parse(converters[pos], r)
         IN  IF step.tag = "raise" THEN Raise(nest(step.error, pos))
             ELSE SeqLoop(converters, pos + 1, r,
                          Append(results, step.value))

SeqLoop(converters, pos, r, results) ==
    IF pos > Len(converters) THEN Return(lstrip(r), PyTuple(results))
    ELSE LET step == Parse(converters[pos], r)
         IN  IF step.tag = "raise" THEN Raise(nest(step.error, pos))
             ELSE SeqLoop(converters, pos + 1, step.rest,
                          Append(results, step.value))

Seq_parse(self, src) == SeqLoop(self.converters, 1, lstrip(src), <<>>)

\* p.parse(src), dispatched on the class of p
Parse(p, src) ==
    CASE p.cls = "Int" -> Int_parse(src)
      [] p.cls = "Word" -> Word_parse(src)
      [] p.cls = "Rest" -> Rest_parse(src)
      [] p.cls = "Nothing" -> Nothing_parse(src)
      [] p.cls = "Lit" -> Lit_parse(p, src)
      [] p.cls = "PureParser" -> PureParser_parse(p, src)
      [] p.cls = "MappingParser" -> MappingParser_parse(p, src)
      [] p.cls = "NestedParser" -> NestedParser_parse(p, src)
      [] p.cls = "FlatMappingParser" -> FlatMappingParser_parse(p, src)
      [] p.cls = "Seq" -> Seq_parse(p, src)

(***************************************************************************)
(* The parsers and mappers the callers of the model build.                 *)
(***************************************************************************)
LitValues == {PyStr(<<"a">>), PyStr(<<"1">>)}

PureValues == {PyInt(7)}

Leaves ==
    {integer, word, rest, nothing}
        \cup {literal(v) : v \in LitValues}
        \cup {pure(x) : x \in PureValues}

\* parsers whose value is a str without whitespace
WordParsers == {word} \cup {literal(v) : v \in LitValues}

\* (parser, mapper) pairs in which the mapper returns a parser
Binds ==
    (WordParsers \X {"literal"})
        \cup (Leaves \X {"pure", "lambda _: integer"})

\* (parser, mapper) pairs in which the mapper returns a plain value
Maps == {<<integer, "lambda n: -n">>}

same_word == Parser_flat_map(word, "literal")

SeqElements ==
    {integer, word, rest, nothing, same_word,
     Seq_add(Seq_add(seq, integer), integer)}

Converters == UNION {[1..n -> SeqElements] : n \in 0..MaxSeq}

\* seq + c1 + ... + cn
RECURSIVE Build(_)
Build(cs) ==
    IF cs = <<>> THEN seq
    ELSE Seq_add(Build(SubSeq(cs, 1, Len(cs) - 1)), cs[Len(cs)])

(***************************************************************************)
(* The names the module binds and the methods the Parser class has, and    *)
(* what the tests of the 2-D point grammar ask of them.                    *)
(***************************************************************************)
ModuleNames ==
    {"defaultdict", "re", "ABC", "abstractmethod", "dataclass",
     "TYPE_CHECKING", "Any", "Callable", "Generic", "Optional", "Sequence",
     "TypeVar", "Union", "TypeVarTuple", "Unpack", "P", "A", "B",
     "OpaqueDescription", "UnionDescription", "TupleDescription",
     "AnnotatedDescription", "EmptyDescription", "Description",
     "ParseError", "SimpleParseError", "NestedParseError", "Parser",
     "PureParser", "MappingParser", "NestedParser", "FlatMappingParser",
     "Int", "Word", "Rest", "Nothing", "Seq", "Lit",
     "integer", "word", "rest", "nothing", "seq", "literal", "pure"}

ParserMethods ==
    {"description", "parse", "matches", "map", "flatten", "flat_map"}

PointStyles == {"callback_hell", "helper_methods", "do_notation"}

PointImports(style) ==
    CASE style = "callback_hell" -> {"exact", "integer", "pure"}
      [] style = "helper_methods" -> {"exact", "integer"}
      [] style = "do_notation" -> {"do", "exact", "integer"}

PointMethods(style) ==
    CASE style = "callback_hell" -> {"flat_map", "parse"}
      [] style = "helper_methods" -> {"after", "map", "apply", "before", "parse"}
      [] style = "do_notation" -> {"parse"}

PointInput == <<"(", "3", ",", " ", "-", "5", "1", ")">>

(***************************************************************************)
(* State machine: a caller holds an input line and calls parse on it.      *)
(***************************************************************************)
Init ==
    /\ source \in Strings
    /\ parser = nothing
    /\ outcome = NotCalled
    /\ err = NotCalled
    /\ text = NotCalled

ParseInteger ==
    /\ outcome = NotCalled
    /\ parser' = integer
    /\ outcome' = Int_parse(source)
    /\ UNCHANGED <<source, err, text>>

ParseWord ==
    /\ outcome = NotCalled
    /\ parser' = word
    /\ outcome' = Word_parse(source)
    /\ UNCHANGED <<source, err, text>>

ParseRest ==
    /\ outcome = NotCalled
    /\ parser' = rest
    /\ outcome' = Rest_parse(source)
    /\ UNCHANGED <<source, err, text>>

ParseNothing ==
    /\ outcome = NotCalled
    /\ parser' = nothing
    /\ outcome' = Nothing_parse(source)
    /\ UNCHANGED <<source, err, text>>

ParseLiteral ==
    \E v \in LitValues :
        /\ outcome = NotCalled
        /\ parser' = literal(v)
        /\ outcome' = Lit_parse(literal(v), source)
        /\ UNCHANGED <<source, err, text>>

ParsePure ==
    \E x \in PureValues :
        /\ outcome = NotCalled
        /\ parser' = pure(x)
        /\ outcome' = PureParser_parse(pure(x), source)
        /\ UNCHANGED <<source, err, text>>

ParseMap ==
    \E m \in Maps \cup Binds :
        /\ outcome = NotCalled
        /\ parser' = Parser_map(m[1], m[2])
        /\ outcome' = MappingParser_parse(Parser_map(m[1], m[2]), source)
        /\ UNCHANGED <<source, err, text>>

ParseFlatten ==
    \E p \in {Parser_map(m[1], m[2]) : m \in Binds} \cup {pure(q) : q \in Leaves} :
        /\ outcome = NotCalled
        /\ parser' = Parser_flatten(p)
        /\ outcome' = NestedParser_parse(Parser_flatten(p), source)
        /\ UNCHANGED <<source, err, text>>

ParseFlatMap ==
    \E m \in Binds :
        /\ outcome = NotCalled
        /\ parser' = Parser_flat_map(m[1], m[2])
        /\ outcome' = FlatMappingParser_parse(Parser_flat_map(m[1], m[2]), source)
        /\ UNCHANGED <<source, err, text>>

ParseSeq ==
    \E cs \in Converters :
        /\ outcome = NotCalled
        /\ parser' = Build(cs)
        /\ outcome' = Seq_parse(Build(cs), source)
        /\ UNCHANGED <<source, err, text>>

\* the three tests of the 2-D point grammar: each starts with a
\* "from bot_command_parser.parsers import ..." of the names it uses and
\* then looks its helper methods up on a parser
PointTest ==
    \E style \in PointStyles :
        LET missing == PointImports(style) \ ModuleNames
            absent == PointMethods(style) \ ParserMethods
        IN  /\ outcome = NotCalled
            /\ missing # {} \/ absent # {}
            /\ source' = PointInput
            /\ parser' = [cls |-> "point", style |-> style]
            /\ outcome' = IF missing # {}
                           THEN Raise([cls |-> "ImportError", names |-> missing])
                           ELSE Raise([cls |-> "AttributeError", names |-> absent])
            /\ UNCHANGED <<err, text>>

Next ==
    \/ PointTest
    \/ ParseInteger
    \/ ParseWord
    \/ ParseRest
    \/ ParseNothing
    \/ ParseLiteral
    \/ ParsePure
    \/ ParseMap
    \/ ParseFlatten
    \/ ParseFlatMap
    \/ ParseSeq

Spec == Init /\ [][Next]_vars

(***************************************************************************)
(* State machine of the error values: a caller holds a ParseError, nests   *)
(* it, wraps it in a NestedParseError it constructs itself, and renders    *)
(* it with describe().                                                     *)
(***************************************************************************)
Keys == 1..MaxSeq

Paths == UNION {[1..n -> Keys] : n \in 0..MaxPath}

Messages ==
    {ExpectedAnInteger,
     ExpectedNonSpace,
     ExpectedLiteral \o <<"a">>,
     ExpectedLiteral \o <<"a">> \o GotText \o <<"'">>,
     ExpectedLiteral \o <<"a">> \o GotText \o <<"\"", "\\">>}

RECURSIVE ErrorDepth(_)
ErrorDepth(e) ==
    IF e.cls = "SimpleParseError" THEN 0 ELSE 1 + ErrorDepth(e.error)

\* the number of path segments an error holds, over all its layers
RECURSIVE Segments(_)
Segments(e) ==
    IF e.cls = "SimpleParseError" THEN 0 ELSE Len(e.path) + Segments(e.error)

ErrInit ==
    /\ source = <<>>
    /\ parser = nothing
    /\ outcome = NotCalled
    /\ err \in {SimpleParseError(m) : m \in Messages}
    /\ text = NotCalled

NestError ==
    \E key \in Keys :
        /\ Segments(err) < MaxPath
        /\ err' = nest(err, key)
        /\ text' = NotCalled
        /\ UNCHANGED <<source, parser, outcome>>

WrapError ==
    \E path \in Paths :
        /\ ErrorDepth(err) < MaxDepth
        /\ Segments(err) + Len(path) <= MaxPath
        /\ err' = NestedParseError(path, err)
        /\ text' = NotCalled
        /\ UNCHANGED <<source, parser, outcome>>

DescribeError ==
    /\ text' = PyStr(describe(err))
    /\ UNCHANGED <<source, parser, outcome, err>>

ErrNext ==
    \/ NestError
    \/ WrapError
    \/ DescribeError

ErrSpec == ErrInit /\ [][ErrNext]_vars

(***************************************************************************)
(* Vocabulary of the properties.                                           *)
(***************************************************************************)
Called == outcome.tag # "none"

Succeeded == outcome.tag = "return"

Failed == outcome.tag = "raise"

NoLeadingSpace(s) == s = <<>> \/ s[1] \notin Whitespace

\* s without its leading whitespace: the suffix of s that starts at the
\* first character of s that is not whitespace
Stripped(s) ==
    LET first == CHOOSE i \in 1..(Len(s) + 1) :
                     /\ \A j \in 1..(i - 1) : s[j] \in Whitespace
                     /\ i <= Len(s) => s[i] \notin Whitespace
    IN  SubSeq(s, first, Len(s))

IsSuffix(r, s) == \E i \in 0..Len(s) : r = SubSeq(s, i + 1, Len(s))

\* the length of the longest run of characters of t after position from
\* whose membership in class is inside
RunLength(t, from, class, inside) ==
    CHOOSE n \in 0..(Len(t) - from) :
        /\ \A i \in (from + 1)..(from + n) : (t[i] \in class) = inside
        /\ from + n < Len(t) => (t[from + n + 1] \in class) # inside

RECURSIVE Pow10(_)
Pow10(k) == IF k = 0 THEN 1 ELSE 10 * Pow10(k - 1)

\* the number a string of decimal digits denotes
RECURSIVE Denoted(_)
Denoted(d) ==
    IF d = <<>> THEN 0
    ELSE DigitValue(Head(d)) * Pow10(Len(d) - 1) + Denoted(Tail(d))

\* the whitespace-separated words of s
RECURSIVE Words(_)
Words(s) ==
    LET t == Stripped(s)
        n == RunLength(t, 0, Whitespace, FALSE)
    IN  IF t = <<>> THEN <<>>
        ELSE <<SubSeq(t, 1, n)>> \o Words(SubSeq(t, n + 1, Len(t)))

\* the input the i-th constituent of a Seq is run on when the constituents
\* before it succeed: the input without its leading whitespace for the
\* first one, the remainder of constituent i-1 for the others
RECURSIVE InputOf(_, _, _)
InputOf(cs, src, i) ==
    IF i = 1 THEN Stripped(src)
    ELSE Parse(cs[i - 1], InputOf(cs, src, i - 1)).rest

StepOf(cs, src, i) == Parse(cs[i], InputOf(cs, src, i))

AllSucceed(cs, src) ==
    \A i \in 1..Len(cs) : StepOf(cs, src, i).tag = "return"

\* constituents 1..k-1 succeed and constituent k fails
FirstToFail(cs, src, k) ==
    /\ \A i \in 1..(k - 1) : StepOf(cs, src, i).tag = "return"
    /\ StepOf(cs, src, k).tag = "raise"

IntegerPair == Build(<<integer, integer>>)

(***************************************************************************)
(* C1: when constituents 1..k-1 of a Seq succeed on the successive         *)
(* remainders and constituent k fails, Seq.parse fails, and its error is   *)
(* the error of constituent k nested with the position k; for a Simple     *)
(* error with message m it is NestedParseError((k,), SimpleParseError(m)). *)
(* Seq(integer, integer) fails with path (1,) on "a" and with path (2,)    *)
(* on "1 a" and on "1".                                                    *)
(***************************************************************************)
SeqFailsAtFirstFailure ==
    (parser.cls = "Seq" /\ Called) =>
        /\ \A k \in 1..Len(parser.converters) :
              FirstToFail(parser.converters, source, k) =>
                  LET e == StepOf(parser.converters, source, k).error
                  IN  /\ Failed
                      /\ outcome.error.cls = "NestedParseError"
                      /\ e.cls = "SimpleParseError" =>
                            outcome.error =
                                NestedParseError(<<k>>, SimpleParseError(e.message))
                      /\ e.cls = "NestedParseError" =>
                            /\ outcome.error.error = e.error
                            /\ Len(outcome.error.path) = Len(e.path) + 1
                            /\ \E i \in 1..Len(outcome.error.path) :
                                   outcome.error.path[i] = k
        /\ (parser = IntegerPair /\ source = <<"a">>) =>
              outcome = Raise(NestedParseError(<<1>>,
                                  SimpleParseError(ExpectedAnInteger)))
        /\ (parser = IntegerPair /\ source \in {<<"1", " ", "a">>, <<"1">>}) =>
              outcome = Raise(NestedParseError(<<2>>,
                                  SimpleParseError(ExpectedAnInteger)))

\* the second of two constituents fails after the first has consumed input
SeqFailureWitness ==
    /\ parser = IntegerPair
    /\ source = <<"1", " ", "a">>
    /\ Failed
    /\ outcome.error.path = <<2>>

(***************************************************************************)
(* C2: when every constituent of a Seq succeeds on the successive          *)
(* remainders, Seq.parse returns the tuple of the constituents' values in  *)
(* order and the last remainder without its leading whitespace; the empty  *)
(* Seq returns the input without its leading whitespace and the empty      *)
(* tuple.                                                                  *)
(***************************************************************************)
SeqSucceedsWithAllValues ==
    (parser.cls = "Seq" /\ Called) =>
        LET cs == parser.converters
            n == Len(cs)
        IN  /\ AllSucceed(cs, source) =>
                  /\ Succeeded
                  /\ outcome.value.ty = "tuple"
                  /\ Len(outcome.value.items) = n
                  /\ \A i \in 1..n :
                         outcome.value.items[i] = StepOf(cs, source, i).value
                  /\ outcome.rest = Stripped(InputOf(cs, source, n + 1))
            /\ n = 0 => outcome = Return(Stripped(source), PyTuple(<<>>))

\* two constituents with different values
SeqSuccessWitness ==
    /\ parser = Build(<<integer, word>>)
    /\ source = <<"1", " ", "a">>
    /\ outcome = Return(<<>>, PyTuple(<<PyInt(1), PyStr(<<"a">>)>>))

(***************************************************************************)
(* C3: when a Seq at position i of an outer Seq fails at its own           *)
(* constituent j with a Simple error, the error of the outer Seq.parse has *)
(* the path (i, j), outermost position first.                              *)
(***************************************************************************)
NestedPathOutermostFirst ==
    (parser.cls = "Seq" /\ Called) =>
        \A i \in 1..Len(parser.converters) :
            (FirstToFail(parser.converters, source, i)
                 /\ parser.converters[i].cls = "Seq") =>
                LET inner == parser.converters[i].converters
                    input == InputOf(parser.converters, source, i)
                IN  \A j \in 1..Len(inner) :
                        (FirstToFail(inner, input, j)
                             /\ StepOf(inner, input, j).error.cls = "SimpleParseError") =>
                            outcome = Raise(NestedParseError(<<i, j>>,
                                                StepOf(inner, input, j).error))

(***************************************************************************)
(* C5: P.flat_map(f).parse(s) fails with exactly the error of P.parse(s)   *)
(* when P fails, and otherwise has exactly the outcome of f(v).parse(r)    *)
(* for the (r, v) that P returned.  word.flat_map(literal) succeeds        *)
(* exactly when the first two words of the input are equal, and as the     *)
(* second constituent of a Seq its mismatch is reported with the path (2,) *)
(* and "Expected literal: <first>, got: <second>".                         *)
(***************************************************************************)
FlatMapIsBind ==
    /\ (parser.cls = "FlatMappingParser" /\ Called) =>
          LET first == Parse(parser.wrapped, source)
          IN  IF first.tag = "raise" THEN outcome = first
              ELSE outcome = Parse(Call(parser.mapper, first.value), first.rest)
    /\ (parser = same_word /\ Called) =>
          (Succeeded <=> (/\ Len(Words(source)) >= 2
                          /\ Words(source)[1] = Words(source)[2]))
    /\ (parser.cls = "Seq" /\ Called /\ Len(parser.converters) = 2
            /\ parser.converters[2] = same_word
            /\ StepOf(parser.converters, source, 1).tag = "return") =>
          LET ws == Words(InputOf(parser.converters, source, 2))
          IN  (Len(ws) >= 2 /\ ws[1] # ws[2]) =>
                  outcome = Raise(NestedParseError(<<2>>, SimpleParseError(
                                ExpectedLiteral \o ws[1] \o GotText \o ws[2])))

\* the dependent literal fails inside a Seq after the word was read
FlatMapWitness ==
    /\ parser = Build(<<nothing, same_word>>)
    /\ source = <<"a", " ", "0">>
    /\ outcome = Raise(NestedParseError(<<2>>, SimpleParseError(
                      ExpectedLiteral \o <<"a">> \o GotText \o <<"0">>)))

(***************************************************************************)
(* C4, as stated: for every parser the input is parsed as if its leading   *)
(* whitespace were stripped, and the remainder of a successful parse has   *)
(* no leading whitespace.                                                  *)
(***************************************************************************)
WhitespacePolicyEverywhere ==
    (Called /\ parser.cls # "point") =>
        /\ outcome = Parse(parser, Stripped(source))
        /\ Succeeded => NoLeadingSpace(outcome.rest)

\* parsers that strip: integer, word, literal, Seq, and map, flat_map and
\* flatten over a parser that strips
RECURSIVE Strips(_)
Strips(p) ==
    \/ p.cls \in {"Int", "Word", "Lit", "Seq"}
    \/ /\ p.cls \in {"MappingParser", "NestedParser", "FlatMappingParser"}
       /\ Strips(p.wrapped)

(***************************************************************************)
(* C4, amended: integer, word, literal and Seq, and map, flat_map and      *)
(* flatten over a parser that strips, parse the input as if its leading    *)
(* whitespace were stripped and return a remainder without leading         *)
(* whitespace.  nothing and pure return the input unchanged, leading       *)
(* whitespace included; rest returns the unstripped input as its value and *)
(* an empty remainder.  For every parser, an input without leading         *)
(* whitespace gives a remainder without leading whitespace.                *)
(***************************************************************************)
WhitespacePolicyOfStrippingParsers ==
    (Called /\ parser.cls # "point") =>
        /\ Strips(parser) =>
              /\ outcome = Parse(parser, Stripped(source))
              /\ Succeeded => NoLeadingSpace(outcome.rest)
        /\ parser.cls \in {"Nothing", "PureParser"} =>
              Succeeded /\ outcome.rest = source
        /\ parser = rest => outcome = Return(<<>>, PyStr(source))
        /\ (Succeeded /\ NoLeadingSpace(source)) => NoLeadingSpace(outcome.rest)

\* whitespace before the word and after it
WhitespaceWitness ==
    /\ parser = word
    /\ source = <<" ", "a", " ">>
    /\ outcome = Return(<<>>, PyStr(<<"a">>))

(***************************************************************************)
(* C7: integer.parse succeeds exactly when the input, after its leading    *)
(* whitespace, starts with an optional single '+' or '-' followed by at    *)
(* least one digit; the value is the signed number the sign and the        *)
(* longest digit run denote, the remainder is the text after the digit run *)
(* without its leading whitespace; otherwise the error is the Simple error *)
(* "Expected an integer".                                                  *)
(***************************************************************************)
IntegerContract ==
    (parser = integer /\ Called) =>
        LET t == Stripped(source)
            signed == t # <<>> /\ t[1] \in {"+", "-"}
            from == IF signed THEN 1 ELSE 0
            n == RunLength(t, from, DigitChars, TRUE)
            magnitude == Denoted(SubSeq(t, from + 1, from + n))
            number == IF signed /\ t[1] = "-" THEN 0 - magnitude ELSE magnitude
        IN  IF n >= 1
            THEN outcome = Return(Stripped(SubSeq(t, from + n + 1, Len(t))),
                                  PyInt(number))
            ELSE outcome = Raise(SimpleParseError(ExpectedAnInteger))

\* "-10": a minus sign and two digits
IntegerWitness ==
    /\ parser = integer
    /\ source = <<"-", "1", "0">>
    /\ outcome = Return(<<>>, PyInt(-10))

(***************************************************************************)
(* C8: literal(v).parse succeeds exactly when the first word of the input  *)
(* (the longest run of non-whitespace characters after the leading         *)
(* whitespace) equals v; it then returns the text after the word without   *)
(* its leading whitespace, and v.  With no word the error is the Simple    *)
(* error "Expected literal: v"; with another word w it is                  *)
(* "Expected literal: v, got: w".  A failure returns no remainder.         *)
(***************************************************************************)
LiteralContract ==
    (parser.cls = "Lit" /\ Called) =>
        LET v == parser.value.s
            t == Stripped(source)
            n == RunLength(t, 0, Whitespace, FALSE)
            w == SubSeq(t, 1, n)
        IN  IF n = 0
            THEN outcome = Raise(SimpleParseError(ExpectedLiteral \o v))
            ELSE IF w # v
            THEN outcome = Raise(SimpleParseError(
                               ExpectedLiteral \o v \o GotText \o w))
            ELSE outcome = Return(Stripped(SubSeq(t, n + 1, Len(t))), PyStr(v))

\* a longer word that starts with the literal does not match
LiteralWitness ==
    /\ parser = literal(PyStr(<<"a">>))
    /\ source = <<" ", "a", "a">>
    /\ Failed
    /\ outcome.error.message = ExpectedLiteral \o <<"a">> \o GotText \o <<"a", "a">>

(***************************************************************************)
(* C10: whenever a parse succeeds, the remainder is a suffix of the input. *)
(***************************************************************************)
RemainderIsSuffix ==
    (Succeeded /\ parser.cls # "point") => IsSuffix(outcome.rest, source)

\* a flat_map consumes a part of the input and leaves a proper, non-empty
\* suffix
RemainderWitness ==
    /\ parser.cls = "FlatMappingParser"
    /\ Succeeded
    /\ outcome.rest # <<>>
    /\ outcome.rest # source

(***************************************************************************)
(* C6: the 2-D point grammar written with nested flat_map calls, with the  *)
(* helpers after, before and apply, and with the do notation parses        *)
(* "(3, -51)" to ("", (3, -51)) in each of the three styles.               *)
(***************************************************************************)
PointGrammarParses ==
    (parser.cls = "point" /\ Called) =>
        outcome = Return(<<>>, PyTuple(<<PyInt(3), PyInt(-51)>>))

\* the path of an error as text: its segments joined by dots
RECURSIVE Dotted(_)
Dotted(path) ==
    IF Len(path) = 1 THEN repr_int(path[1])
    ELSE repr_int(path[1]) \o <<".">> \o Dotted(Tail(path))

PathText(e) ==
    IF e.cls = "SimpleParseError" \/ e.path = <<>> THEN RootText
    ELSE Dotted(e.path)

RECURSIVE Innermost(_)
Innermost(e) ==
    IF e.cls = "SimpleParseError" THEN e.message ELSE Innermost(e.error)

Described == text # NotCalled

RECURSIVE Unescape(_)
Unescape(body) ==
    IF body = <<>> THEN <<>>
    ELSE IF body[1] = "\\" /\ Len(body) >= 2
    THEN <<body[2]>> \o Unescape(SubSeq(body, 3, Len(body)))
    ELSE <<body[1]>> \o Unescape(Tail(body))

\* no quote of the literal's own kind, and no backslash, stands unescaped
\* in its body
RECURSIVE Escaped(_, _)
Escaped(body, quote) ==
    IF body = <<>> THEN TRUE
    ELSE IF body[1] = "\\"
    THEN Len(body) >= 2 /\ body[2] \in {"\\", quote}
             /\ Escaped(SubSeq(body, 3, Len(body)), quote)
    ELSE body[1] # quote /\ Escaped(Tail(body), quote)

\* lit is a Python string literal that denotes the text s
Denotes(lit, s) ==
    /\ Len(lit) >= 2
    /\ lit[1] \in {"'", "\""}
    /\ lit[Len(lit)] = lit[1]
    /\ Escaped(SubSeq(lit, 2, Len(lit) - 1), lit[1])
    /\ Unescape(SubSeq(lit, 2, Len(lit) - 1)) = s

PlainText(s) == Chars(s) \cap {"'", "\"", "\\"} = {}

====
